---- MODULE Spec2Model ----
(***************************************************************************)
(* Model of manager_multi_scale.py: the training manager (Manager.train,   *)
(* do_epoch, do_batch, eval, save_model) and the optimizer list            *)
(* (Optimizers.add, step, update_lr).                                      *)
(*                                                                         *)
(* The collaborators (model, data loaders, torchnet error meter, torch     *)
(* optimizers, files) are represented by the part of their state the       *)
(* manager reads or changes: the model's mode and device, the accumulated  *)
(* gradient count, the meter's counters, each optimizer's learning rate    *)
(* and step count, and the contents of the log and checkpoint files.       *)
(* Percentages are integers (100 * misses \div samples).  A learning rate  *)
(* base * f^k is the pair <<base, k>>, f being args.lr_decay_factor.       *)
(***************************************************************************)
EXTENDS Integers, Sequences, FiniteSets, TLC

\* ------------------------------------------------------------- bounds
MaxEpochs == 4
MaxOpts == 3
NumTrainBatches == 2
MaxEvalBatches == 3

VARIABLES
    cuda,           \* self.cuda, set once by __init__
    args_cuda,      \* self.args.cuda, replaced by load_model
    mode,           \* model execution mode: "train" | "eval"
    device,         \* where the model's parameters live: "cpu" | "cuda"
    optimizers,     \* Optimizers.optimizers: handles [reg, lr, steps]
    lrs,            \* Optimizers.lrs
    decay_every,    \* Optimizers.decay_every
    ops,            \* call log of the latest Optimizers / do_batch handler
    grad,           \* backward passes accumulated in the gradient buffers
    pc,             \* position of Manager.train
    epochs,         \* train's argument
    epoch_idx,      \* train's epoch_idx (0 before the loop)
    best_init,      \* train's argument best_accuracy
    best_accuracy,  \* train's local best_accuracy
    error_history,  \* train's local error_history
    errors,         \* train's local errors (eval's return value)
    accuracy,       \* train's local accuracy
    log_file,       \* content of savename.json (its error_history)
    log_writes,     \* number of times savename.json was written
    ckpt_file,      \* content of savename.pt: <<>> or <<ckpt>>
    saved,          \* history of save_model calls
    batch_idx,      \* training batches done in this epoch
    error_meter,    \* eval's local error_meter: <<>> is None, else <<meter>>
    eval_len,       \* number of batches the evaluation stream yields this pass
    eval_seen,      \* output widths of the evaluation batches consumed this pass
    meters_made,    \* ClassErrorMeter objects constructed this pass
    failure         \* "none", or the exception that aborted the run

vars == <<cuda, args_cuda, mode, device, optimizers, lrs, decay_every, ops, grad, pc, epochs,
          epoch_idx, best_init, best_accuracy, error_history, errors, accuracy,
          log_file, log_writes, ckpt_file, saved, batch_idx, error_meter,
          eval_len, eval_seen, meters_made, failure>>

optVars == <<optimizers, lrs, decay_every, ops>>
trainVars == <<epochs, epoch_idx, best_init, best_accuracy, error_history, errors,
               accuracy, batch_idx>>
fileVars == <<log_file, log_writes, ckpt_file, saved>>
evalVars == <<error_meter, eval_len, eval_seen, meters_made>>

\* ------------------------------------------------------------- inputs
BaseRates == {100, 10, 1}          \* 0.1, 0.01, 0.001 in thousandths
DecayIntervals == {0, 2, 3}
InitialBest == {0, 50}

\* Checkpoint files load_model may be given: the args of the run that wrote them.
LoadInputs == {[args_cuda |-> c] : c \in BOOLEAN}

\* The optimizers the training runs register, by position (spec scenario).
ScenarioRate(i) == IF i = 1 THEN 100 ELSE IF i = 2 THEN 10 ELSE 1
ScenarioDecay(i) == IF i = 1 THEN 2 ELSE IF i = 2 THEN 3 ELSE 0

TrainFaults == {"none", "data", "forward"}
SaveFaults == {"none", "state_dict", "to_cuda", "torch_save"}

\* Evaluation batches of the multi-epoch runs: one sample, 8 classes.
TrainEvalInputs ==
    {[width |-> 8, n |-> 1, miss1 |-> m, miss5 |-> 0, fault |-> "none"] : m \in 0..1}
    \cup {[width |-> 8, n |-> 1, miss1 |-> 0, miss5 |-> 0, fault |-> "forward"]}
TrainEvalLens == {0, MaxEvalBatches}

\* Evaluation batches of the single-pass runs: any width around the top-5 limit.
EvalInputs ==
    {[width |-> w, n |-> 1, miss1 |-> m, miss5 |-> m5, fault |-> f] :
        w \in {3, 5, 6, 8}, m \in 0..1, m5 \in 0..1, f \in {"none", "data", "forward", "meter"}}
EvalInputsOk == {b \in EvalInputs : b.miss5 <= b.miss1 /\ (b.width <= 5 => b.miss5 = 0)
                                    /\ (b.fault # "none" => b.miss1 = 0)}
EvalLens == 0..MaxEvalBatches

\* ------------------------------------------------------------- helpers
Call(op, idx, arg) == [op |-> op, idx |-> idx, arg |-> arg]

Min2(a, b) == IF a <= b THEN a ELSE b

\* utils.step_lr: step decay, rate = base * f^floor(epoch / interval);
\* an interval <= 0 never decays.
DecayPow(epoch, interval) == IF interval > 0 THEN epoch \div interval ELSE 0

step_lr(epoch, init_lr, interval, optimizer) ==
    [optimizer EXCEPT !.lr = <<init_lr, DecayPow(epoch, interval)>>]

\* Optimizers.add
add_optimizers(os, optimizer) == Append(os, optimizer)
add_lrs(ls, learning_rate) == Append(ls, learning_rate)
add_decay_every(ds, interval) == Append(ds, interval)

\* Optimizers.update_lr: zip stops at the shortest of the three lists.
ZipLen(os, ls, ds) == Min2(Len(os), Min2(Len(ls), Len(ds)))

update_lr_shared(os, ls, ds, epoch) ==
    [i \in 1..Len(os) |->
        IF i <= ZipLen(os, ls, ds) THEN step_lr(epoch, ls[1], ds[1], os[i]) ELSE os[i]]

update_lr(os, ls, ds, epoch) ==
    [i \in 1..Len(os) |->
        IF i <= ZipLen(os, ls, ds) THEN step_lr(epoch, ls[i], ds[i], os[i]) ELSE os[i]]

update_lr_log(os, ls, ds, epoch) ==
    <<Call("update_lr", 0, <<epoch>>)>>
    \o [i \in 1..ZipLen(os, ls, ds) |-> Call("step_lr", i, <<epoch, ls[i], ds[i]>>)]

\* Optimizers.step
step(os) == [i \in 1..Len(os) |-> [os[i] EXCEPT !.steps = @ + 1]]

step_log(os, g) ==
    <<Call("step", 0, <<>>)>> \o [i \in 1..Len(os) |-> Call("opt_step", i, <<g>>)]

\* model.zero_grad and loss.backward on the gradient buffers
zero_grad_missing(g) == g

zero_grad(g) == 0

backward(g) == g + 1

\* Manager.eval: the k values, and the torchnet ClassErrorMeter
TopKInclusive(width) == IF width >= 5 THEN <<1, 5>> ELSE <<1>>

TopK(width) == IF width > 5 THEN <<1, 5>> ELSE <<1>>

NewMeter(topk) == [topk |-> topk, n |-> 0, sum1 |-> 0, sum5 |-> 0, adds |-> 0]

MeterAddFails(m, b) == b.fault = "meter" \/ b.width < m.topk[Len(m.topk)]

MeterAdd(m, b) ==
    [m EXCEPT !.n = @ + b.n,
              !.sum1 = @ + b.miss1,
              !.sum5 = @ + (IF Len(m.topk) = 2 THEN b.miss5 ELSE 0),
              !.adds = @ + 1]

MeterValue(m) ==
    [i \in 1..Len(m.topk) |->
        (100 * (IF m.topk[i] = 1 THEN m.sum1 ELSE m.sum5)) \div m.n]

\* Manager.train: accuracy, the best-model test, the log and the checkpoint
Top1Accuracy(errs) == 100 - errs[1]

IsBestOrEqual(acc, best) == acc >= best

IsBest(acc, best) == acc > best

LogLatestOnly(history) == <<history[Len(history)]>>

LogContent(history) == history

CkptStale(epoch, best, errs) ==
    [args_cuda |-> args_cuda, epoch |-> epoch, accuracy |-> 100 - best, errors |-> errs]

Ckpt(epoch, best, errs) ==
    [args_cuda |-> args_cuda, epoch |-> epoch, accuracy |-> best, errors |-> errs]

HomeDevice == IF cuda THEN "cuda" ELSE "cpu"

\* ------------------------------------------------------------- initial state
NewOptimizer(learning_rate, interval) ==
    [reg |-> <<learning_rate, interval>>, lr |-> <<learning_rate, 0>>, steps |-> 0]

Init ==
    /\ cuda \in BOOLEAN
    /\ args_cuda = cuda
    /\ mode = "train"
    /\ device = "cpu"
    /\ optimizers = <<>>
    /\ lrs = <<>>
    /\ decay_every = <<>>
    /\ ops = <<>>
    /\ grad = 0
    /\ pc = "Start"
    /\ epochs \in 0..MaxEpochs
    /\ epoch_idx = 0
    /\ best_init \in InitialBest
    /\ best_accuracy = best_init
    /\ error_history = <<>>
    /\ errors = <<>>
    /\ accuracy = 0
    /\ log_file = <<>>
    /\ log_writes = 0
    /\ ckpt_file = <<>>
    /\ saved = <<>>
    /\ batch_idx = 0
    /\ error_meter = <<>>
    /\ eval_len = 0
    /\ eval_seen = <<>>
    /\ meters_made = 0
    /\ failure = "none"

\* ------------------------------------------------------------- Optimizers
Add(learning_rate, interval) ==
    /\ pc = "Start"
    /\ Len(optimizers) < MaxOpts
    /\ IF ops = <<>> THEN TRUE ELSE ops[1].op = "add"
    /\ optimizers' = add_optimizers(optimizers, NewOptimizer(learning_rate, interval))
    /\ lrs' = add_lrs(lrs, learning_rate)
    /\ decay_every' = add_decay_every(decay_every, interval)
    /\ ops' = <<Call("add", Len(optimizers) + 1, <<learning_rate, interval>>)>>
    /\ UNCHANGED <<cuda, args_cuda, mode, device, grad, pc, failure>>
    /\ UNCHANGED <<trainVars, fileVars, evalVars>>

\* Optimizers.update_lr called on its own
CallUpdateLR(epoch) ==
    /\ pc = "Start"
    /\ optimizers' = update_lr(optimizers, lrs, decay_every, epoch)
    /\ ops' = update_lr_log(optimizers, lrs, decay_every, epoch)
    /\ UNCHANGED <<lrs, decay_every, cuda, args_cuda, mode, device, grad, pc, failure>>
    /\ UNCHANGED <<trainVars, fileVars, evalVars>>

\* Optimizers.step called on its own
CallStep ==
    /\ pc = "Start"
    /\ \A i \in 1..Len(optimizers) : optimizers[i].steps < NumTrainBatches
    /\ optimizers' = step(optimizers)
    /\ ops' = step_log(optimizers, grad)
    /\ UNCHANGED <<lrs, decay_every, cuda, args_cuda, mode, device, grad, pc, failure>>
    /\ UNCHANGED <<trainVars, fileVars, evalVars>>

\* ------------------------------------------------------------- Manager.load_model
\* The checkpoint's state_dict is copied into the model and its args replace
\* self.args; self.cuda keeps the value __init__ gave it.
LoadModel(file) ==
    /\ pc = "Start"
    /\ args_cuda' = file.args_cuda
    /\ UNCHANGED <<cuda, mode, device, grad, pc, failure>>
    /\ UNCHANGED <<optVars, trainVars, fileVars, evalVars>>

\* ------------------------------------------------------------- Manager.train
\* The loop header after epoch i: the next epoch, or the final report.
LoopHead(i) ==
    IF i < epochs
    THEN /\ pc' = "UpdateLR"
         /\ epoch_idx' = i + 1
    ELSE /\ pc' = "Finished"
         /\ epoch_idx' = i

TrainStart ==
    /\ pc = "Start"
    /\ best_accuracy' = best_init
    /\ error_history' = <<>>
    /\ device' = IF args_cuda THEN "cuda" ELSE device
    /\ LoopHead(0)
    /\ UNCHANGED <<cuda, args_cuda, mode, grad, failure, epochs, best_init, errors, accuracy, batch_idx>>
    /\ UNCHANGED <<optVars, fileVars, evalVars>>

UpdateLRSkipEpoch ==
    /\ pc = "UpdateLR"
    /\ optimizers' = update_lr(optimizers, lrs, decay_every, epoch_idx)
    /\ ops' = update_lr_log(optimizers, lrs, decay_every, epoch_idx)
    /\ mode' = "train"
    /\ batch_idx' = 0
    /\ pc' = "Evaluate"
    /\ UNCHANGED <<lrs, decay_every, cuda, args_cuda, device, grad, failure>>
    /\ UNCHANGED <<epochs, epoch_idx, best_init, best_accuracy, error_history, errors, accuracy>>
    /\ UNCHANGED <<fileVars, evalVars>>

UpdateLR ==
    /\ pc = "UpdateLR"
    /\ optimizers' = update_lr(optimizers, lrs, decay_every, epoch_idx)
    /\ ops' = update_lr_log(optimizers, lrs, decay_every, epoch_idx)
    /\ mode' = "train"
    /\ batch_idx' = 0
    /\ pc' = "RunEpoch"
    /\ UNCHANGED <<lrs, decay_every, cuda, args_cuda, device, grad, failure>>
    /\ UNCHANGED <<epochs, epoch_idx, best_init, best_accuracy, error_history, errors, accuracy>>
    /\ UNCHANGED <<fileVars, evalVars>>

\* One iteration of do_epoch's loop: fetch a batch, do_batch on it.
DoBatch(fault) ==
    /\ pc = "RunEpoch"
    /\ batch_idx < NumTrainBatches
    /\ IF fault = "data"
       THEN /\ failure' = "train_data"
            /\ pc' = "Failed"
            /\ UNCHANGED <<grad, ops, optimizers, batch_idx>>
       ELSE IF fault = "forward"
       THEN /\ grad' = zero_grad(grad)
            /\ ops' = <<Call("do_batch", batch_idx + 1, <<>>),
                        Call("zero_grad", 0, <<zero_grad(grad)>>),
                        Call("forward", 0, <<zero_grad(grad)>>)>>
            /\ failure' = "train_forward"
            /\ pc' = "Failed"
            /\ UNCHANGED <<optimizers, batch_idx>>
       ELSE /\ grad' = backward(zero_grad(grad))
            /\ ops' = <<Call("do_batch", batch_idx + 1, <<>>),
                        Call("zero_grad", 0, <<zero_grad(grad)>>),
                        Call("forward", 0, <<zero_grad(grad)>>),
                        Call("backward", 0, <<backward(zero_grad(grad))>>)>>
                      \o step_log(optimizers, backward(zero_grad(grad)))
            /\ optimizers' = step(optimizers)
            /\ batch_idx' = batch_idx + 1
            /\ UNCHANGED <<failure, pc>>
    /\ UNCHANGED <<lrs, decay_every, cuda, args_cuda, mode, device>>
    /\ UNCHANGED <<epochs, epoch_idx, best_init, best_accuracy, error_history, errors, accuracy>>
    /\ UNCHANGED <<fileVars, evalVars>>

\* The training stream is exhausted: do_epoch returns.
EndEpoch ==
    /\ pc = "RunEpoch"
    /\ batch_idx = NumTrainBatches
    /\ pc' = "Evaluate"
    /\ UNCHANGED <<cuda, args_cuda, mode, device, grad, failure>>
    /\ UNCHANGED <<optVars, trainVars, fileVars, evalVars>>

\* ------------------------------------------------------------- Manager.eval
EvalBegin(len) ==
    /\ pc = "Evaluate"
    /\ mode' = "eval"
    /\ error_meter' = <<>>
    /\ eval_len' = len
    /\ eval_seen' = <<>>
    /\ meters_made' = 0
    /\ pc' = "EvalLoop"
    /\ UNCHANGED <<cuda, args_cuda, device, grad, failure>>
    /\ UNCHANGED <<optVars, trainVars, fileVars>>

\* One iteration of eval's loop.
EvalBatch(b) ==
    /\ pc = "EvalLoop"
    /\ Len(eval_seen) < eval_len
    /\ IF b.fault = "data"
       THEN /\ failure' = "eval_data"
            /\ pc' = "Failed"
            /\ UNCHANGED <<error_meter, eval_seen, meters_made>>
       ELSE IF b.fault = "forward"
       THEN /\ failure' = "eval_forward"
            /\ pc' = "Failed"
            /\ UNCHANGED <<error_meter, eval_seen, meters_made>>
       ELSE LET made == error_meter = <<>>
                m == IF made THEN NewMeter(TopK(b.width)) ELSE error_meter[1]
            IN  /\ meters_made' = IF made THEN meters_made + 1 ELSE meters_made
                /\ IF MeterAddFails(m, b)
                   THEN /\ error_meter' = <<m>>
                        /\ failure' = "eval_meter"
                        /\ pc' = "Failed"
                        /\ UNCHANGED eval_seen
                   ELSE /\ error_meter' = <<MeterAdd(m, b)>>
                        /\ eval_seen' = Append(eval_seen, b.width)
                        /\ UNCHANGED <<failure, pc>>
    /\ UNCHANGED <<cuda, args_cuda, mode, device, grad, eval_len>>
    /\ UNCHANGED <<optVars, trainVars, fileVars>>

EvalEndRestoring ==
    /\ pc = "EvalLoop"
    /\ Len(eval_seen) = eval_len
    /\ IF error_meter = <<>>
       THEN /\ failure' = "eval_none_meter"
            /\ pc' = "Failed"
            /\ mode' = "train"
            /\ UNCHANGED <<errors, accuracy>>
       ELSE /\ errors' = MeterValue(error_meter[1])
            /\ mode' = "train"
            /\ accuracy' = Top1Accuracy(MeterValue(error_meter[1]))
            /\ pc' = "Persist"
            /\ UNCHANGED failure
    /\ UNCHANGED <<cuda, args_cuda, device, grad>>
    /\ UNCHANGED <<epochs, epoch_idx, best_init, best_accuracy, error_history, batch_idx>>
    /\ UNCHANGED <<optVars, fileVars, evalVars>>

\* The evaluation stream is exhausted: value(), model.train(), return to train,
\* which derives the accuracy.
EvalEnd ==
    /\ pc = "EvalLoop"
    /\ Len(eval_seen) = eval_len
    /\ IF error_meter = <<>>
       THEN /\ failure' = "eval_none_meter"
            /\ pc' = "Failed"
            /\ UNCHANGED <<mode, errors, accuracy>>
       ELSE /\ errors' = MeterValue(error_meter[1])
            /\ mode' = "train"
            /\ accuracy' = Top1Accuracy(MeterValue(error_meter[1]))
            /\ pc' = "Persist"
            /\ UNCHANGED failure
    /\ UNCHANGED <<cuda, args_cuda, device, grad>>
    /\ UNCHANGED <<epochs, epoch_idx, best_init, best_accuracy, error_history, batch_idx>>
    /\ UNCHANGED <<optVars, fileVars, evalVars>>

\* ------------------------------------------------------------- Persist
Persist ==
    /\ pc = "Persist"
    /\ error_history' = Append(error_history, errors)
    /\ log_file' = LogContent(Append(error_history, errors))
    /\ log_writes' = log_writes + 1
    /\ pc' = "CheckpointIfBest"
    /\ UNCHANGED <<cuda, args_cuda, mode, device, grad, failure, ckpt_file, saved>>
    /\ UNCHANGED <<epochs, epoch_idx, best_init, best_accuracy, errors, accuracy, batch_idx>>
    /\ UNCHANGED <<optVars, evalVars>>

\* ------------------------------------------------------------- CheckpointIfBest
\* Manager.save_model with the step that raises, if any.
SaveCall(fault) ==
    [epoch |-> epoch_idx, ckpt |-> Ckpt(epoch_idx, accuracy, errors), fault |-> fault,
     dev_in |-> device,
     dev_out |-> IF fault = "state_dict" \/ fault = "to_cuda" THEN "cpu" ELSE HomeDevice,
     written |-> fault = "none"]

CheckpointIfBest(fault) ==
    /\ pc = "CheckpointIfBest"
    /\ fault = "to_cuda" => cuda
    /\ IF IsBest(accuracy, best_accuracy)
       THEN /\ best_accuracy' = accuracy
            /\ saved' = Append(saved, SaveCall(fault))
            /\ device' = SaveCall(fault).dev_out
            /\ IF fault = "none"
               THEN /\ ckpt_file' = <<Ckpt(epoch_idx, accuracy, errors)>>
                    /\ LoopHead(epoch_idx)
                    /\ UNCHANGED failure
               ELSE /\ failure' = fault
                    /\ pc' = "Failed"
                    /\ UNCHANGED <<ckpt_file, epoch_idx>>
       ELSE /\ fault = "none"
            /\ LoopHead(epoch_idx)
            /\ UNCHANGED <<best_accuracy, saved, device, ckpt_file, failure>>
    /\ UNCHANGED <<cuda, args_cuda, mode, grad, log_file, log_writes>>
    /\ UNCHANGED <<epochs, best_init, error_history, errors, accuracy, batch_idx>>
    /\ UNCHANGED <<optVars, evalVars>>

\* ------------------------------------------------------------- specifications
TrainSteps ==
    \/ TrainStart
    \/ UpdateLR
    \/ \E f \in TrainFaults : DoBatch(f)
    \/ EndEpoch
    \/ EvalEnd
    \/ Persist
    \/ \E f \in SaveFaults : CheckpointIfBest(f)

\* Training runs of up to MaxEpochs epochs.
Next ==
    \/ Add(ScenarioRate(Len(optimizers) + 1), ScenarioDecay(Len(optimizers) + 1))
    \/ \E file \in LoadInputs : LoadModel(file)
    \/ TrainSteps
    \/ \E len \in TrainEvalLens : EvalBegin(len)
    \/ \E b \in TrainEvalInputs : EvalBatch(b)

Spec == Init /\ [][Next]_vars

\* One-epoch runs over evaluation streams of every shape.
InitEval == Init /\ epochs = 1 /\ best_init = 0

NextEval ==
    \/ Add(ScenarioRate(Len(optimizers) + 1), ScenarioDecay(Len(optimizers) + 1))
    \/ TrainSteps
    \/ \E len \in EvalLens : EvalBegin(len)
    \/ \E b \in EvalInputsOk : EvalBatch(b)

SpecEval == InitEval /\ [][NextEval]_vars

\* The optimizer list used on its own: registrations, then rate updates and steps.
InitOpt == Init /\ epochs = 0 /\ best_init = 0 /\ cuda = FALSE

NextOpt ==
    \/ \E r \in BaseRates, d \in DecayIntervals : Add(r, d)
    \/ \E e \in 1..(MaxEpochs + 1) : CallUpdateLR(e)
    \/ CallStep

SpecOpt == InitOpt /\ [][NextOpt]_vars

\* ------------------------------------------------------------- properties
MaxOf(S) == CHOOSE x \in S : \A y \in S : y <= x

\* Top-1 accuracy of epoch k, read from the error history.
AccAt(k) == 100 - error_history[k][1]

\* Best accuracy held before epoch k.
BestBefore(k) == MaxOf({best_init} \cup {AccAt(j) : j \in 1..(k - 1)})

SavedEpochs == {saved[j].epoch : j \in 1..Len(saved)}

\* Epoch k's best-model test has been taken.
Decided(k) == k <= Len(error_history) /\ ~(pc = "CheckpointIfBest" /\ k = epoch_idx)

EvalAborts == {"eval_data", "eval_forward", "eval_meter"}

\* C1: save_model is called at the end of epoch k if and only if epoch k's
\* top-1 accuracy is strictly greater than the best accuracy held before it
\* (the initial best or the maximum of the earlier epochs); it is called at
\* most once per epoch, and an equal accuracy writes no checkpoint.
C1_CheckpointIffStrictlyBetter ==
    /\ \A k \in 1..Len(error_history) :
          Decided(k) => ((k \in SavedEpochs) <=> (AccAt(k) > BestBefore(k)))
    /\ Cardinality(SavedEpochs) = Len(saved)
    /\ \A j \in 1..Len(saved) : saved[j].epoch <= Len(error_history)

\* Four epochs, the third equal to the second: checkpoints after 1, 2 and 4.
C1_Witness ==
    /\ pc = "Finished"
    /\ best_init = 0
    /\ Len(error_history) = 4
    /\ AccAt(1) < AccAt(2)
    /\ AccAt(3) = AccAt(2)
    /\ AccAt(4) > AccAt(2)
    /\ SavedEpochs = {1, 2, 4}

BestIsMax ==
    pc # "CheckpointIfBest" =>
        best_accuracy = MaxOf({best_init} \cup {AccAt(k) : k \in 1..Len(error_history)})

CkptIsMax ==
    /\ \A j \in 1..Len(saved) :
          saved[j].ckpt.accuracy = MaxOf({AccAt(k) : k \in 1..saved[j].ckpt.epoch})
    /\ ckpt_file # <<>> =>
          ckpt_file[1].accuracy = MaxOf({AccAt(k) : k \in 1..ckpt_file[1].epoch})

\* C2: after every epoch best_accuracy is the maximum of the initial best and
\* all top-1 accuracies observed so far, it never decreases, and every
\* checkpoint stores as accuracy the maximum top-1 accuracy over epochs 1..e,
\* e being the epoch stored in the same checkpoint.
C2_BestIsRunningMax ==
    /\ [](BestIsMax /\ CkptIsMax)
    /\ [][best_accuracy' >= best_accuracy]_vars

\* Initial best 50; accuracies 34, 67, 34, 100: checkpoints after 2 and 4 only.
C2_Witness ==
    /\ pc = "Finished"
    /\ best_init = 50
    /\ Len(error_history) = 4
    /\ AccAt(1) = 34
    /\ AccAt(2) = 67
    /\ AccAt(3) = 34
    /\ AccAt(4) = 100
    /\ ckpt_file = <<[args_cuda |-> args_cuda, epoch |-> 4, accuracy |-> 100,
                       errors |-> <<0, 0>>]>>
    /\ best_accuracy = 100

\* Number of epochs whose Persist step is over.
Persisted ==
    IF pc = "Start" THEN 0
    ELSE IF pc \in {"CheckpointIfBest", "Finished"} THEN epoch_idx
    ELSE IF pc = "Failed" /\ failure \in SaveFaults THEN epoch_idx
    ELSE epoch_idx - 1

\* C3: the error history has exactly k records, in epoch order, once epoch k
\* has passed its Persist step, and the log file written then replaces what
\* was there and holds exactly those k records (the full history).
C3_HistoryAndLog ==
    /\ [](/\ Len(error_history) = Persisted
          /\ log_writes = Persisted
          /\ log_file = error_history
          /\ \A j \in 1..Len(saved) : error_history[saved[j].epoch] = saved[j].ckpt.errors)
    /\ [][/\ Len(error_history') >= Len(error_history)
          /\ Len(error_history') <= Len(error_history) + 1
          /\ \A k \in 1..Len(error_history) : error_history'[k] = error_history[k]
          /\ Len(error_history') > Len(error_history) =>
                error_history'[Len(error_history')] = errors]_vars

C3_Witness ==
    /\ pc = "Finished"
    /\ epochs = 3
    /\ log_writes = 3
    /\ log_file = <<(<<33, 0>>), (<<100, 0>>), (<<0, 0>>)>>

\* One step of train's phase sequence.
PhaseStep ==
    /\ pc = "Start" =>
          \/ pc' = "Start" /\ epoch_idx' = 0
          \/ pc' = "UpdateLR" /\ epoch_idx' = 1 /\ epochs >= 1
          \/ pc' = "Finished" /\ epochs = 0
    /\ pc = "UpdateLR" =>
          /\ pc' = "RunEpoch"
          /\ batch_idx' = 0
          /\ ops'[1] = Call("update_lr", 0, <<epoch_idx>>)
    /\ pc = "RunEpoch" =>
          \/ pc' = "RunEpoch" /\ batch_idx' = batch_idx + 1
          \/ pc' = "Evaluate" /\ batch_idx = NumTrainBatches
          \/ pc' = "Failed"
    /\ pc = "Evaluate" => pc' = "EvalLoop" /\ eval_seen' = <<>>
    /\ pc = "EvalLoop" =>
          \/ pc' = "EvalLoop" /\ Len(eval_seen') = Len(eval_seen) + 1
          \/ pc' = "Persist" /\ Len(eval_seen) = eval_len
          \/ pc' = "Failed"
    /\ pc = "Persist" => pc' = "CheckpointIfBest" /\ log_writes' = log_writes + 1
    /\ pc = "CheckpointIfBest" =>
          \/ pc' = "UpdateLR" /\ epoch_idx' = epoch_idx + 1 /\ epoch_idx < epochs
          \/ pc' = "Finished" /\ epoch_idx = epochs
          \/ pc' = "Failed"
    /\ pc \in {"Finished", "Failed"} => pc' = pc
    /\ (pc' # "UpdateLR" /\ pc # "Start") => epoch_idx' = epoch_idx
    /\ pc' = "Failed" <=> failure' # "none"

\* C4: train(epochs = N) runs, for epoch 1..N in increasing order, exactly
\* UpdateLR -> RunEpoch (one pass over the training stream) -> Evaluate (one
\* pass) -> Persist -> CheckpointIfBest, nothing skipped, repeated or
\* reordered; it stops only in Finished, after exactly N epochs, or in a failure.
C4_PhaseSequence ==
    /\ [][PhaseStep]_vars
    /\ [](pc = "Finished" =>
             epoch_idx = epochs /\ Len(error_history) = epochs /\ failure = "none")
    /\ [](pc \notin {"Finished", "Failed"} => ENABLED Next)

C4_Witness ==
    /\ pc = "Finished"
    /\ epochs = 4
    /\ log_writes = 4
    /\ Len(saved) = 2
    /\ \A i \in 1..Len(optimizers) : optimizers[i].steps = 4 * NumTrainBatches

\* C5: whenever eval gives control back, by a normal return or by a failure
\* partway through the evaluation stream, the model is in training mode.
C5_EvalRestoresMode ==
    (pc = "Persist" \/ (pc = "Failed" /\ failure \in EvalAborts)) => mode = "train"

\* C6: save_model leaves the model on the device it was on before the call on
\* every exit path, normal return included (a failure of the move back itself
\* excepted).
C6_SaveRestoresDevice ==
    \A j \in 1..Len(saved) :
        saved[j].fault # "to_cuda" => saved[j].dev_out = saved[j].dev_in

\* What save_model does guarantee: the move to self.cuda's device precedes
\* the write, so after a return or a failed write the model is on that device,
\* which is the one it came from while self.args.cuda agrees with self.cuda.
SaveWriteFailureRestored ==
    \A j \in 1..Len(saved) :
        saved[j].fault \in {"none", "torch_save"} =>
            /\ saved[j].dev_out = HomeDevice
            /\ args_cuda = cuda => saved[j].dev_out = saved[j].dev_in

FirstWidthTopK == IF eval_seen[1] > 5 THEN <<1, 5>> ELSE <<1>>

\* C7: eval over B >= 1 batches returns two error values when the output
\* width is above 5 and one otherwise; the k values are chosen once, from the
\* first batch's width, and every batch is added to the one meter exactly once.
C7_EvalTopK ==
    /\ (pc = "EvalLoop" /\ eval_seen # <<>>) =>
          /\ meters_made = 1
          /\ error_meter[1].topk = FirstWidthTopK
          /\ error_meter[1].adds = Len(eval_seen)
          /\ error_meter[1].n = Len(eval_seen)
    /\ pc = "Persist" =>
          /\ Len(eval_seen) = eval_len
          /\ eval_len >= 1
          /\ meters_made = 1
          /\ error_meter[1].topk = FirstWidthTopK
          /\ error_meter[1].adds = eval_len
          /\ Len(errors) = (IF eval_seen[1] > 5 THEN 2 ELSE 1)
          /\ \A i \in 1..Len(errors) : errors[i] \in 0..100

\* Five classes first, then eight: one error value, the later width changes nothing.
C7_Witness ==
    /\ pc = "Persist"
    /\ eval_seen = <<5, 8, 6>>
    /\ Len(errors) = 1
    /\ errors[1] = 66

\* C8: one update_lr(epoch) applies the schedule to every registered optimizer
\* exactly once, in registration order, each with the base rate and decay
\* interval of its own add call and the shared factor; an interval of 0 or
\* one not yet reached is visited too.
C8_UpdateLrEveryOptimizer ==
    (ops # <<>> /\ ops[1].op = "update_lr") =>
        LET e == ops[1].arg[1]
        IN  /\ Len(ops) = 1 + Len(optimizers)
            /\ \A i \in 1..Len(optimizers) :
                  /\ ops[i + 1] = Call("step_lr", i, <<e, optimizers[i].reg[1], optimizers[i].reg[2]>>)
                  /\ optimizers[i].lr[1] = optimizers[i].reg[1]
                  /\ optimizers[i].lr[2] =
                        (IF optimizers[i].reg[2] > 0 THEN e \div optimizers[i].reg[2] ELSE 0)

\* Base rates 0.1, 0.01, 0.001, decay every 2, 3, 0, update_lr(4):
\* 0.1 * f^2, 0.01 * f, 0.001.
C8_Witness ==
    /\ ops # <<>>
    /\ ops[1] = Call("update_lr", 0, <<4>>)
    /\ Len(optimizers) = 3
    /\ lrs = <<100, 10, 1>>
    /\ decay_every = <<2, 3, 0>>
    /\ optimizers[1].lr = <<100, 2>>
    /\ optimizers[2].lr = <<10, 1>>
    /\ optimizers[3].lr = <<1, 0>>

\* Training batches completed since train started.
BatchesDone ==
    IF pc \in {"Start", "UpdateLR"} THEN (IF epoch_idx = 0 THEN 0 ELSE (epoch_idx - 1) * NumTrainBatches)
    ELSE IF pc \in {"RunEpoch", "Failed"} /\ failure \in {"none", "train_data", "train_forward"}
         THEN (epoch_idx - 1) * NumTrainBatches + batch_idx
    ELSE epoch_idx * NumTrainBatches

DoBatchCalls(k) ==
    <<Call("do_batch", k, <<>>), Call("zero_grad", 0, <<0>>), Call("forward", 0, <<0>>)>>

\* C9: do_batch performs zero-gradients -> forward -> backward -> step, the
\* forward pass and every optimizer step seeing the gradient of this batch
\* alone; step calls step() on every registered optimizer once, in
\* registration order, so each optimizer has been stepped once per batch.
C9_BatchOrder ==
    /\ (ops # <<>> /\ ops[1].op = "do_batch") =>
          IF failure = "train_forward"
          THEN ops = DoBatchCalls(batch_idx + 1)
          ELSE ops = DoBatchCalls(ops[1].idx)
                     \o <<Call("backward", 0, <<1>>), Call("step", 0, <<>>)>>
                     \o [i \in 1..Len(optimizers) |-> Call("opt_step", i, <<1>>)]
    /\ \A i \in 1..Len(optimizers) : optimizers[i].steps = BatchesDone
    /\ pc = "RunEpoch" /\ batch_idx > 0 => ops[1] = Call("do_batch", batch_idx, <<>>)

C9_Witness ==
    /\ pc = "Evaluate"
    /\ epoch_idx = 2
    /\ Len(optimizers) = 3
    /\ optimizers[3].steps = 2 * NumTrainBatches
    /\ Len(ops) = 8
    /\ ops[8] = Call("opt_step", 3, <<1>>)

\* C10: an evaluation stream of zero batches never creates the meter; eval
\* fails instead of returning, train is aborted in that epoch's Evaluate
\* phase with no record appended, no log and no checkpoint written for the
\* epoch, and the model is left in evaluation mode.
C10_EmptyEvalAborts ==
    /\ (pc = "EvalLoop" /\ eval_len = 0) => (error_meter = <<>> /\ meters_made = 0)
    /\ pc \in {"Persist", "CheckpointIfBest"} => eval_len >= 1
    /\ (pc = "Failed" /\ eval_len = 0 /\ failure \notin {"train_data", "train_forward"}) =>
          failure = "eval_none_meter"
    /\ failure = "eval_none_meter" =>
          /\ pc = "Failed"
          /\ eval_len = 0
          /\ error_meter = <<>>
          /\ Len(error_history) = epoch_idx - 1
          /\ log_writes = epoch_idx - 1
          /\ Len(log_file) = epoch_idx - 1
          /\ epoch_idx \notin SavedEpochs
          /\ mode = "eval"

C10_Witness ==
    /\ failure = "eval_none_meter"
    /\ epoch_idx = 3
    /\ Len(saved) = 2
    /\ log_writes = 2

====
